---- MODULE Spec2Model ----
(***************************************************************************)
(* Model of the yearbook Flipbook viewer (components/flipbook, the React   *)
(* component `Flipbook`).  The React state hooks are the variables, every  *)
(* event handler / effect is one action.  The page-turn mechanism is the   *)
(* HTMLFlipBook instance the component mounts (showCover, usePortrait): it *)
(* is mounted by the desktop or by the mobile branch of the render, keeps  *)
(* its own page index `bookPage`, and reports settled pages through the    *)
(* onFlip callback.                                                        *)
(*                                                                         *)
(* Strings are sequences of one-character strings, so that String() and    *)
(* parseInt() are real conversions.  JavaScript `null` for numPages is the *)
(* number 0: every use in the component (`!numPages`, `numPages || 0`,     *)
(* `pageNum <= numPages`) treats null exactly as 0.                        *)
(*                                                                         *)
(* The two downloads of the viewer (downloadPdf, and downloadCurrentPage   *)
(* with one step per await) and the authentication wrapper of lib/auth.js  *)
(* (withAuth, isAuthenticated, redirectToCASLogin) are modelled next to    *)
(* it; each has a specification of its own.                                *)
(***************************************************************************)
EXTENDS Integers, Sequences, FiniteSets, TLC

\* ---------------------------------------------------------------- bounds
MaxPages == 3

\* page count of the long document of the render-window runs
WindowPages == 13

\* viewports (window.innerWidth, window.innerHeight) the window can take
Widths  == {500, 600}
Heights == {500}

\* ------------------------------------------------------- strings, numbers
DigitChars == <<"0", "1", "2", "3", "4", "5", "6", "7", "8", "9">>

IsDigit(c) == \E i \in 1..10 : DigitChars[i] = c

DigitVal(c) == (CHOOSE i \in 1..10 : DigitChars[i] = c) - 1

\* String(n) for an integer n: a minus sign for n < 0, its decimal digits
RECURSIVE String(_)
String(n) ==
  IF n < 0 THEN <<"-">> \o String(0 - n)
  ELSE IF n < 10 THEN <<DigitChars[n + 1]>>
  ELSE String(n \div 10) \o <<DigitChars[(n % 10) + 1]>>

\* a JavaScript number that may be NaN
NaN == [nan |-> TRUE, val |-> 0]

Num(v) == [nan |-> FALSE, val |-> v]

RECURSIVE SkipWhitespace(_)
SkipWhitespace(s) ==
  IF s # <<>> /\ Head(s) = " " THEN SkipWhitespace(Tail(s)) ELSE s

\* value of the longest prefix of decimal digits of s, continuing from acc
RECURSIVE DigitsValue(_, _)
DigitsValue(s, acc) ==
  IF s = <<>> \/ ~IsDigit(Head(s)) THEN acc
  ELSE DigitsValue(Tail(s), acc * 10 + DigitVal(Head(s)))

\* parseInt(s) / parseInt(s, 10): leading whitespace, optional sign, then
\* the leading decimal digits; NaN when there is no leading digit
parseInt(s) ==
  LET t == SkipWhitespace(s)
      signed == t # <<>> /\ Head(t) \in {"-", "+"}
      u == IF signed THEN Tail(t) ELSE t
  IN IF u = <<>> \/ ~IsDigit(Head(u)) THEN NaN
     ELSE IF signed /\ Head(t) = "-" THEN Num(0 - DigitsValue(u, 0))
     ELSE Num(DigitsValue(u, 0))

\* pageNum >= 1 && pageNum <= numPages  (false for NaN, false for null)
InPageRange(pageNum, np) ==
  ~pageNum.nan /\ pageNum.val >= 1 /\ pageNum.val <= np

\* texts the user can type into the page field
TypedInputs ==
  {<<>>, <<"x">>, <<"0">>, <<"2", "x">>}
    \cup {String(n) : n \in 1..(MaxPages + 1)}

\* the `page` prop (router query parameter); undefined when absent
Undefined == [defined |-> FALSE, text |-> <<>>]

Str(s) == [defined |-> TRUE, text |-> s]

PageParams ==
  {Undefined, Str(<<"x">>), Str(<<"0">>), Str(String(2)), Str(String(3)),
   Str(String(MaxPages + 1))}

\* arguments goToPage is called with
GoToPageArgs == {NaN} \cup {Num(n) : n \in (0 - 1)..(MaxPages + 1)}

Keys == {"ArrowLeft", "ArrowUp", "ArrowRight", "ArrowDown", "a"}

InputKeys == {"Escape", "Enter", "5"}

VARIABLES
  phase,          \* "constructed", "mounted", "unmounted"
  innerWidth,     \* window.innerWidth
  innerHeight,    \* window.innerHeight
  page,           \* props.page
  loadState,      \* Document: "loading", "loaded", "failed"
  numPages,       \* useState(null): 0 is null
  currentPage,    \* useState(0)
  pageInput,      \* useState("1")
  isEditingPage,  \* useState(false)
  isMobile,       \* useState(false)
  refSet,         \* flipBookRef.current is an HTMLFlipBook handle
  ready,          \* flipBookRef.current.pageFlip() returns the PageFlip
  bookPage,       \* left-most page the mechanism displays
  flipping,       \* animated turn in flight: "none", "next", "prev"
  pollerActive,   \* the deep-link setInterval is live
  jumped,         \* the deep-link poller has called turnToPage
  listeners,      \* window event listeners the component has registered
  rendered,       \* page indices pagesList() renders as a <Page>
  exports,        \* the calls of downloadCurrentPage, by call id
  pdfLink,        \* what the latest call of downloadPdf did
  auth,           \* an instance of the component withAuth returns
  last            \* the last handler that ran, with the state it started in

vars == <<phase, innerWidth, innerHeight, page, loadState, numPages,
          currentPage, pageInput, isEditingPage, isMobile, refSet, ready,
          bookPage, flipping, pollerActive, jumped, listeners, rendered,
          exports, pdfLink, auth, last>>

\* record of the handler that just ran: the component function it called,
\* whether a method of the mechanism was called, whether it threw, and the
\* state it started in
RanCall(op, key, n, invoked, threw, call) ==
  [op |-> op, key |-> key, n |-> n, invoked |-> invoked, threw |-> threw,
   call |-> call, cp |-> currentPage, pi |-> pageInput,
   ed |-> isEditingPage, fl |-> flipping, im |-> isMobile,
   ju |-> jumped, pa |-> pollerActive]

Ran(op, key, n, invoked, threw) == RanCall(op, key, n, invoked, threw, "")

\* the yearbookViewerPath prop, the path the Document loads
yearbookViewerPath == "/yearbook.pdf"

\* the calls of downloadCurrentPage that can be in flight together
ExportIds == {"a", "b"}

\* an entry of the export's trace: a page requested, rendered, its
\* download triggered (link.click()), or the delay timer started
Event(ev, p) == [ev |-> ev, p |-> p]

\* a call id not used yet.  A call holds the values its closure captured
\* (isMobile, currentPage, numPages), its pagesToDownload, the loop index
\* i, the await it is suspended at and the alert it showed
Idle ==
  [pc |-> "idle", im |-> FALSE, cp |-> 0, np |-> 0, pages |-> <<>>,
   i |-> 0, log |-> <<>>, alert |-> ""]

\* ------------------------------------------------------- lib/auth.js
\* part.includes('Authorization_YearBook')
IncludesAuthName(part) == part = "Authorization_YearBook"

\* part.trim() !== ''
TrimmedNonEmpty(part) == part \notin {"", " "}

\* cookies of document.cookie.split(';'), each as its cookie.split('='):
\* the authorization cookie with a value, with an empty or blank value and
\* without "=", and other cookies, one of them holding the name as value
Cookies ==
  {<<"Authorization_YearBook", "token">>, <<"Authorization_YearBook", "">>,
   <<"Authorization_YearBook", " ">>, <<"Authorization_YearBook">>,
   <<"theme", "dark">>, <<"theme", "Authorization_YearBook">>}

CookieJars ==
  {<<>>} \cup {<<c>> : c \in Cookies}
         \cup {<<c, d>> : c \in Cookies, d \in Cookies}

\* cookie.trim().includes('Authorization_YearBook'): the name has no "="
\* in it, so it is found in one of the parts
CookieMatches(cookie) ==
  \E k \in 1..Len(cookie) : IncludesAuthName(cookie[k])

\* value && value.trim() !== '' for value = cookie.split('=')[1]: undefined
\* when there is no "=", the empty string itself when the value is empty
CookieVerdict(cookie) ==
  IF Len(cookie) < 2 THEN "undefined"
  ELSE IF cookie[2] = "" THEN ""
  ELSE IF TrimmedNonEmpty(cookie[2]) THEN "true" ELSE "false"

\* isAuthenticated(): false without a document; otherwise the verdict of
\* the first cookie that contains the name, false when none does
RECURSIVE isAuthenticated(_, _)
isAuthenticated(hasDocument, jar) ==
  IF ~hasDocument \/ jar = <<>> THEN "false"
  ELSE IF CookieMatches(Head(jar)) THEN CookieVerdict(Head(jar))
  ELSE isAuthenticated(hasDocument, Tail(jar))

\* JavaScript truthiness of the values isAuthenticated returns
Truthy(v) == v = "true"

\* window.location.pathname of the pages the component is used on
Pathnames == {<<"/">>, <<"/", "h", "o", "m", "e">>}

\* encodeURIComponent on paths: "/" is escaped, letters are kept
RECURSIVE encodeURIComponent(_)
encodeURIComponent(s) ==
  IF s = <<>> THEN <<>>
  ELSE (IF Head(s) = "/" THEN <<"%", "2", "F">> ELSE <<Head(s)>>)
       \o encodeURIComponent(Tail(s))

\* redirectToCASLogin(): the URL assigned to window.location.href
loginUrl(pathname) ==
  <<"/", "a", "p", "i", "/", "l", "o", "g", "i", "n", "?", "n", "e", "x",
    "t", "=">> \o encodeURIComponent(pathname)

\* what AuthenticatedComponent returns in a render
AuthView(requireAuth, authChecked, authenticated) ==
  IF requireAuth /\ ~authChecked THEN "loading"
  ELSE IF requireAuth /\ ~Truthy(authenticated) THEN "null"
  ELSE "wrapped"

\* the instance before its first render: useState(false) twice, nothing
\* shown, the effect not run, location.href not assigned
AuthConstructed ==
  [stage |-> "constructed", requireAuth |-> TRUE, cookie |-> <<>>,
   pathname |-> <<"/">>, authChecked |-> FALSE, authenticated |-> "false",
   effectRan |-> FALSE, result |-> "none", href |-> <<>>,
   shown |-> "nothing"]

\* ---------------------------------------------------- page-turn mechanism
\* orientation of the mounted HTMLFlipBook: the mobile branch mounts a
\* 300-wide book in an inline-block (one page), the desktop branch a
\* 480-wide book in a full-width block (two pages)
Orientation(mobile) == IF mobile THEN "portrait" ELSE "landscape"

\* left-most page of the spread that contains page index i (showCover:
\* spreads are [0], [1,2], [3,4], ... in landscape, [i] in portrait)
LeftOf(i, orient) ==
  IF orient = "portrait" \/ i = 0 THEN i
  ELSE IF i % 2 = 1 THEN i ELSE i - 1

HasNext(b, np, orient) ==
  IF orient = "portrait" THEN b + 1 <= np - 1
  ELSE IF b = 0 THEN 1 <= np - 1 ELSE b + 2 <= np - 1

NextLeft(b, orient) ==
  IF orient = "portrait" THEN b + 1 ELSE IF b = 0 THEN 1 ELSE b + 2

PrevLeft(b, orient) ==
  IF orient = "portrait" THEN b - 1 ELSE IF b = 1 THEN 0 ELSE b - 2

\* page indices of the spread the mechanism shows at rest on page b: one
\* page in portrait; in landscape the cover alone, then pairs, the last
\* page alone when it has no partner
SpreadOf(b, np, orient) ==
  IF orient = "portrait" \/ b = 0 THEN {b}
  ELSE {b} \cup {q \in {b + 1} : q <= np - 1}

\* page the mechanism shows once the turn in flight `f` has ended
Settled(b, f, np, orient) ==
  IF f = "next" /\ HasNext(b, np, orient) THEN NextLeft(b, orient)
  ELSE IF f = "prev" /\ b > 0 THEN PrevLeft(b, orient)
  ELSE b

\* ------------------------------------------------------------- component
\* checkAspectRatio with the threshold itself counted as single
checkAspectRatioInclusive(w, h) == 10 * w <= 12 * h

\* checkAspectRatio: aspectRatio < 1.2, with aspectRatio = w / h
checkAspectRatio(w, h) == 10 * w < 12 * h

\* const range = 5 in shouldRenderPage
RenderRange == 5

\* shouldRenderPage narrowed to strictly less than range
shouldRenderPageStrict(pageIndex, cp, np) ==
  IF np = 0 THEN FALSE
  ELSE IF pageIndex >= cp THEN pageIndex - cp < RenderRange
  ELSE cp - pageIndex < RenderRange

\* shouldRenderPage(pageIndex) in a render with currentPage = cp and
\* numPages = np: Math.abs(pageIndex - currentPage) <= range
shouldRenderPage(pageIndex, cp, np) ==
  IF np = 0 THEN FALSE
  ELSE IF pageIndex >= cp THEN pageIndex - cp <= RenderRange
  ELSE cp - pageIndex <= RenderRange

\* pagesList that renders every page as a <Page>
pagesListEager(np, cp) == {i - 1 : i \in 1..np}

\* pagesList(): for i = 1..numPages, a <Page> when shouldRenderPage(i - 1),
\* a placeholder otherwise; the indices that get a <Page>
pagesList(np, cp) ==
  IF np = 0 THEN {}
  ELSE {i - 1 : i \in {j \in 1..np : shouldRenderPage(j - 1, cp, np)}}

\* onFlip taking e.data for a 1-based page number
onFlipOneBased(data) ==
  [currentPage |-> data + 1, pageInput |-> String(data + 1)]

\* onFlip(e): the state the callback sets for e.data = data
onFlip(data) == [currentPage |-> data, pageInput |-> String(data + 1)]

Init ==
  /\ phase = "constructed"
  /\ innerWidth \in Widths
  /\ innerHeight \in Heights
  /\ page \in PageParams
  /\ loadState = "loading"
  /\ numPages = 0
  /\ currentPage = 0
  /\ pageInput = <<"1">>
  /\ isEditingPage = FALSE
  /\ isMobile = FALSE
  /\ refSet = FALSE
  /\ ready = FALSE
  /\ bookPage = 0
  /\ flipping = "none"
  /\ pollerActive = FALSE
  /\ jumped = FALSE
  /\ listeners = {}
  /\ rendered = {}
  /\ exports = [e \in ExportIds |-> Idle]
  /\ pdfLink = [href |-> "", clicks |-> 0, alert |-> ""]
  /\ auth = AuthConstructed
  /\ last = [op |-> "construct", key |-> "", n |-> NaN, invoked |-> FALSE,
             threw |-> FALSE, call |-> "", cp |-> 0, pi |-> <<"1">>,
             ed |-> FALSE, fl |-> "none", im |-> FALSE, ju |-> FALSE,
             pa |-> FALSE]

\* the mount effects: checkAspectRatio() and the two addEventListener calls
Mount ==
  /\ phase = "constructed"
  /\ phase' = "mounted"
  /\ isMobile' = checkAspectRatio(innerWidth, innerHeight)
  /\ listeners' = {"resize", "keydown"}
  /\ last' = Ran("Mount", "", NaN, FALSE, FALSE)
  /\ UNCHANGED <<innerWidth, innerHeight, page, loadState, numPages,
                 currentPage, pageInput, isEditingPage, refSet, ready,
                 bookPage, flipping, pollerActive, jumped, rendered>>
  /\ UNCHANGED <<exports, pdfLink, auth>>


\* unmount whose resize effect returns no cleanup function
UnmountKeepsResizeListener ==
  /\ phase = "mounted"
  /\ phase' = "unmounted"
  /\ listeners' = listeners \ {"keydown"}
  /\ pollerActive' = FALSE
  /\ refSet' = FALSE
  /\ ready' = FALSE
  /\ flipping' = "none"
  /\ last' = Ran("Unmount", "", NaN, FALSE, FALSE)
  /\ UNCHANGED <<innerWidth, innerHeight, page, loadState, numPages,
                 currentPage, pageInput, isEditingPage, isMobile, bookPage,
                 jumped, rendered>>
  /\ UNCHANGED <<exports, pdfLink, auth>>

\* the cleanup functions of the effects: both listeners removed, the
\* interval cleared; the mounted HTMLFlipBook goes away with the component
Unmount ==
  /\ phase = "mounted"
  /\ phase' = "unmounted"
  /\ listeners' = listeners \ {"resize", "keydown"}
  /\ pollerActive' = FALSE
  /\ refSet' = FALSE
  /\ ready' = FALSE
  /\ flipping' = "none"
  /\ last' = Ran("Unmount", "", NaN, FALSE, FALSE)
  /\ UNCHANGED <<innerWidth, innerHeight, page, loadState, numPages,
                 currentPage, pageInput, isEditingPage, isMobile, bookPage,
                 jumped, rendered>>
  /\ UNCHANGED <<exports, pdfLink, auth>>

\* a window resize event.  The registered listener runs
\* checkAspectRatio; when isMobile flips and the Document has rendered its
\* children, the other layout branch mounts a fresh HTMLFlipBook (a new
\* instance at its start page, not yet initialised) and the old one is gone
Resize(w, h) ==
  /\ <<w, h>> # <<innerWidth, innerHeight>>
  /\ innerWidth' = w
  /\ innerHeight' = h
  /\ IF "resize" \in listeners
     THEN /\ isMobile' = checkAspectRatio(w, h)
          /\ last' = Ran("Resize", "", NaN, FALSE, FALSE)
          /\ IF isMobile' # isMobile /\ loadState = "loaded"
             THEN /\ refSet' = TRUE
                  /\ ready' = FALSE
                  /\ bookPage' = 0
                  /\ flipping' = "none"
             ELSE UNCHANGED <<refSet, ready, bookPage, flipping>>
     ELSE UNCHANGED <<isMobile, last, refSet, ready, bookPage, flipping>>
  /\ UNCHANGED <<phase, page, loadState, numPages, currentPage, pageInput,
                 isEditingPage, pollerActive, jumped, listeners, rendered>>
  /\ UNCHANGED <<exports, pdfLink, auth>>

\* the deep-link range test without its upper bound
deepLinkInRangeNoUpper(pageNum, np) == ~pageNum.nan /\ pageNum.val >= 1

\* the range test of the deep-link effect: pageNum >= 1 && pageNum <= numPages
deepLinkInRange(pageNum, np) == InPageRange(pageNum, np)

\* the deep-link effect starts its interval: page && numPages, then the
\* range test on parseInt(page, 10)
deepLinkStarts(p, np) ==
  /\ p.defined /\ p.text # <<>>
  /\ np # 0
  /\ deepLinkInRange(parseInt(p.text), np)

\* the Document resolves: its children (the layout branch with its
\* HTMLFlipBook) are rendered, onDocumentLoadSuccess sets numPages, and
\* the [page, numPages] effect runs
onDocumentLoadSuccess(n) ==
  /\ phase = "mounted"
  /\ loadState = "loading"
  /\ loadState' = "loaded"
  /\ numPages' = n
  /\ refSet' = TRUE
  /\ ready' = FALSE
  /\ bookPage' = 0
  /\ flipping' = "none"
  /\ pollerActive' = deepLinkStarts(page, n)
  /\ rendered' = pagesList(n, currentPage)
  /\ last' = Ran("onDocumentLoadSuccess", "", Num(n), FALSE, FALSE)
  /\ UNCHANGED <<phase, innerWidth, innerHeight, page, currentPage,
                 pageInput, isEditingPage, isMobile, jumped, listeners>>
  /\ UNCHANGED <<exports, pdfLink, auth>>

\* the Document fails to load: children are never rendered
DocumentLoadError ==
  /\ phase = "mounted"
  /\ loadState = "loading"
  /\ loadState' = "failed"
  /\ last' = Ran("DocumentLoadError", "", NaN, FALSE, FALSE)
  /\ UNCHANGED <<phase, innerWidth, innerHeight, page, numPages,
                 currentPage, pageInput, isEditingPage, isMobile, refSet,
                 ready, bookPage, flipping, pollerActive, jumped, listeners,
                 rendered>>
  /\ UNCHANGED <<exports, pdfLink, auth>>

\* the mounted HTMLFlipBook has created its PageFlip object (start page 0)
\* and registered onFlip: pageFlip() is now truthy
MechanismReady ==
  /\ phase = "mounted"
  /\ refSet /\ ~ready
  /\ ready' = TRUE
  /\ last' = Ran("MechanismReady", "", NaN, FALSE, FALSE)
  /\ UNCHANGED <<phase, innerWidth, innerHeight, page, loadState, numPages,
                 currentPage, pageInput, isEditingPage, isMobile, refSet,
                 bookPage, flipping, pollerActive, jumped, listeners,
                 rendered>>
  /\ UNCHANGED <<exports, pdfLink, auth>>

\* handlers that touch only the navigation state; the render that
\* follows calls pagesList() with the new currentPage
Nav(cp, pi, ed, bp, fl, l) ==
  /\ currentPage' = cp
  /\ pageInput' = pi
  /\ isEditingPage' = ed
  /\ bookPage' = bp
  /\ flipping' = fl
  /\ rendered' = pagesList(numPages, cp)
  /\ last' = l
  /\ UNCHANGED <<phase, innerWidth, innerHeight, page, loadState, numPages,
                 isMobile, refSet, ready, pollerActive, jumped, listeners>>
  /\ UNCHANGED <<exports, pdfLink, auth>>

\* pageFlip().turnToPage(target): shows the spread holding target at once
\* and reports it through onFlip; a target outside the book is ignored
turnToPage(target) ==
  IF target >= 0 /\ target < numPages
  THEN [shown |-> TRUE, page |-> LeftOf(target, Orientation(isMobile))]
  ELSE [shown |-> FALSE, page |-> bookPage]

\* the deep-link jump without the conversion to a 0-based index
deepLinkTargetOneBased(pageNum) == pageNum

\* the page the deep-link interval asks for: turnToPage(pageNum - 1)
deepLinkTarget(pageNum) == pageNum - 1

\* the jump without its clearInterval: the interval keeps ticking
PollJumpKeepsInterval ==
  /\ pollerActive
  /\ refSet /\ ready
  /\ LET t == turnToPage(deepLinkTarget(parseInt(page.text).val))
     IN /\ bookPage' = t.page
        /\ currentPage' = IF t.shown THEN onFlip(t.page).currentPage
                          ELSE currentPage
        /\ pageInput' = IF t.shown THEN onFlip(t.page).pageInput
                        ELSE pageInput
  /\ pollerActive' = TRUE
  /\ jumped' = TRUE
  /\ rendered' = pagesList(numPages, currentPage')
  /\ last' = Ran("PollTick", "", parseInt(page.text), TRUE, FALSE)
  /\ UNCHANGED <<phase, innerWidth, innerHeight, page, loadState, numPages,
                 isEditingPage, isMobile, refSet, ready, flipping,
                 listeners>>
  /\ UNCHANGED <<exports, pdfLink, auth>>

\* an interval tick that finds the mechanism ready: jump, clearInterval
PollJump ==
  /\ pollerActive
  /\ refSet /\ ready
  /\ LET t == turnToPage(deepLinkTarget(parseInt(page.text).val))
     IN /\ bookPage' = t.page
        /\ currentPage' = IF t.shown THEN onFlip(t.page).currentPage
                          ELSE currentPage
        /\ pageInput' = IF t.shown THEN onFlip(t.page).pageInput
                        ELSE pageInput
  /\ pollerActive' = FALSE
  /\ jumped' = TRUE
  /\ rendered' = pagesList(numPages, currentPage')
  /\ last' = Ran("PollTick", "", parseInt(page.text), TRUE, FALSE)
  /\ UNCHANGED <<phase, innerWidth, innerHeight, page, loadState, numPages,
                 isEditingPage, isMobile, refSet, ready, flipping,
                 listeners>>
  /\ UNCHANGED <<exports, pdfLink, auth>>

\* a tick that gives up when the mechanism is not ready
PollWaitGivesUp ==
  /\ pollerActive
  /\ ~(refSet /\ ready)
  /\ pollerActive' = FALSE
  /\ last' = Ran("PollTick", "", parseInt(page.text), FALSE, FALSE)
  /\ UNCHANGED <<phase, innerWidth, innerHeight, page, loadState, numPages,
                 currentPage, pageInput, isEditingPage, isMobile, refSet,
                 ready, bookPage, flipping, jumped, listeners,
                 rendered>>
  /\ UNCHANGED <<exports, pdfLink, auth>>

\* an interval tick that finds the mechanism not ready: nothing happens
PollWait ==
  /\ pollerActive
  /\ ~(refSet /\ ready)
  /\ last' = Ran("PollTick", "", parseInt(page.text), FALSE, FALSE)
  /\ UNCHANGED <<phase, innerWidth, innerHeight, page, loadState, numPages,
                 currentPage, pageInput, isEditingPage, isMobile, refSet,
                 ready, bookPage, flipping, pollerActive, jumped, listeners,
                 rendered>>
  /\ UNCHANGED <<exports, pdfLink, auth>>

\* flipPrev / flipNext of the mechanism: a turn still in flight is finished
\* first (reporting its page through onFlip), then a new animated turn
\* starts if there is a spread in that direction
flipStart(dir, op, key) ==
  LET o == Orientation(isMobile)
      b == Settled(bookPage, flipping, numPages, o)
      fired == b # bookPage
      can == IF dir = "next" THEN HasNext(b, numPages, o) ELSE b > 0
  IN Nav(IF fired THEN onFlip(b).currentPage ELSE currentPage,
         IF fired THEN onFlip(b).pageInput ELSE pageInput,
         isEditingPage, b, IF can THEN dir ELSE "none",
         RanCall(op, key, NaN, TRUE, FALSE,
                 IF dir = "next" THEN "goToNextPage"
                 ELSE "goToPreviousPage"))

\* a handler that changes nothing, having called component function `call`
Noop(op, key, n, threw, call) ==
  Nav(currentPage, pageInput, isEditingPage, bookPage, flipping,
      RanCall(op, key, n, FALSE, threw, call))

\* goToPreviousPage: if (flipBookRef.current) pageFlip().flipPrev();
\* pageFlip() is undefined until the mechanism is ready (TypeError)
goToPreviousPage(op, key) ==
  IF ~refSet THEN Noop(op, key, NaN, FALSE, "goToPreviousPage")
  ELSE IF ~ready THEN Noop(op, key, NaN, TRUE, "goToPreviousPage")
  ELSE flipStart("prev", op, key)

\* goToNextPage without its test of flipBookRef.current
goToNextPageNoRefTest(op, key) ==
  IF ~ready THEN Noop(op, key, NaN, TRUE, "goToNextPage")
  ELSE flipStart("next", op, key)

\* goToNextPage: if (flipBookRef.current) pageFlip().flipNext()
goToNextPage(op, key) ==
  IF ~refSet THEN Noop(op, key, NaN, FALSE, "goToNextPage")
  ELSE IF ~ready THEN Noop(op, key, NaN, TRUE, "goToNextPage")
  ELSE flipStart("next", op, key)

\* handleKeyPress with the up and down arrows exchanged
handleKeyPressUpIsNext(key) ==
  /\ "keydown" \in listeners
  /\ IF key \in {"ArrowLeft", "ArrowDown"}
     THEN goToPreviousPage("handleKeyPress", key)
     ELSE IF key \in {"ArrowRight", "ArrowUp"}
     THEN goToNextPage("handleKeyPress", key)
     ELSE Noop("handleKeyPress", key, NaN, FALSE, "")

\* a keydown event reaching the registered window listener
handleKeyPress(key) ==
  /\ "keydown" \in listeners
  /\ IF key \in {"ArrowLeft", "ArrowUp"}
     THEN goToPreviousPage("handleKeyPress", key)
     ELSE IF key \in {"ArrowRight", "ArrowDown"}
     THEN goToNextPage("handleKeyPress", key)
     ELSE Noop("handleKeyPress", key, NaN, FALSE, "")

\* the previous button: rendered with the Document's children,
\* disabled={currentPage === 0}
ClickPrevious ==
  /\ phase = "mounted"
  /\ loadState = "loaded"
  /\ currentPage # 0
  /\ goToPreviousPage("ClickPrevious", "")

\* the next button: disabled={!numPages || currentPage >= numPages - 1}
ClickNext ==
  /\ phase = "mounted"
  /\ loadState = "loaded"
  /\ ~(numPages = 0 \/ currentPage >= numPages - 1)
  /\ goToNextPage("ClickNext", "")

\* the animated turn ends: the mechanism shows the next / previous spread
\* and reports its left-most page through onFlip (last.n is the reported
\* index, NaN when no flip event fired)
FlipComplete ==
  /\ phase = "mounted"
  /\ flipping # "none"
  /\ LET b == Settled(bookPage, flipping, numPages, Orientation(isMobile))
         fired == b # bookPage
     IN Nav(IF fired THEN onFlip(b).currentPage ELSE currentPage,
            IF fired THEN onFlip(b).pageInput ELSE pageInput,
            isEditingPage, b, "none",
            Ran("FlipComplete", "", IF fired THEN Num(b) ELSE NaN,
                FALSE, FALSE))

\* goToPage without the lower bound of its guard
goToPageGuardNoLower(pageNum) ==
  refSet /\ ~pageNum.nan /\ pageNum.val <= numPages

\* the guard of goToPage:
\* flipBookRef.current && pageNum >= 1 && pageNum <= numPages
goToPageGuard(pageNum) == refSet /\ InPageRange(pageNum, numPages)

\* goToPage(pageNum), called by handler `op`; `ed` is the edit mode the
\* caller leaves behind when goToPage returns normally.  Behind the guard:
\* pageFlip().turnToPage(pageNum - 1), which throws while pageFlip() is
\* undefined and otherwise reports the shown page through onFlip at once,
\* then setPageInput(String(pageNum))
goToPage(op, key, pageNum, ed) ==
  IF ~goToPageGuard(pageNum)
  THEN Nav(currentPage, pageInput, ed, bookPage, flipping,
           RanCall(op, key, pageNum, FALSE, FALSE, "goToPage"))
  ELSE IF ~ready THEN Noop(op, key, pageNum, TRUE, "goToPage")
  ELSE LET t == turnToPage(pageNum.val - 1)
       IN Nav(IF t.shown THEN onFlip(t.page).currentPage ELSE currentPage,
              String(pageNum.val), ed, t.page, flipping,
              RanCall(op, key, pageNum, TRUE, FALSE, "goToPage"))

\* goToPage called directly (the exposed operation)
GoToPageCall(pageNum) ==
  /\ phase = "mounted"
  /\ goToPage("goToPage", "", pageNum, isEditingPage)

\* the range test of handlePageInputSubmit without its lower bound
submitInRangeNoLower(pageNum) == ~pageNum.nan /\ pageNum.val <= numPages

\* the range test of handlePageInputSubmit
submitInRange(pageNum) == InPageRange(pageNum, numPages)

\* handlePageInputSubmit, run for handler `op`
handlePageInputSubmit(op, key) ==
  LET pageNum == parseInt(pageInput)
  IN IF submitInRange(pageNum)
     THEN goToPage(op, key, pageNum, FALSE)
     ELSE Nav(currentPage, String(currentPage + 1), FALSE, bookPage,
              flipping, Ran(op, key, pageNum, FALSE, FALSE))

\* the form's onSubmit
SubmitForm ==
  /\ phase = "mounted"
  /\ isEditingPage
  /\ handlePageInputSubmit("handlePageInputSubmit", "")

\* click on the page display box (rendered with the Document's children)
handlePageDisplayClick ==
  /\ phase = "mounted"
  /\ loadState = "loaded"
  /\ Nav(currentPage, String(currentPage + 1), TRUE, bookPage, flipping,
         Ran("handlePageDisplayClick", "", NaN, FALSE, FALSE))

\* handlePageInputChange that also jumps to the page typed so far
handlePageInputChangeLive(value) ==
  /\ phase = "mounted"
  /\ isEditingPage
  /\ goToPage("handlePageInputChange", "", parseInt(value), TRUE)

\* typing in the text field
handlePageInputChange(value) ==
  /\ phase = "mounted"
  /\ isEditingPage
  /\ Nav(currentPage, value, isEditingPage, bookPage, flipping,
         Ran("handlePageInputChange", "", NaN, FALSE, FALSE))

\* handlePageInputBlur that leaves the typed text in the field
handlePageInputBlurKeepsText ==
  /\ phase = "mounted"
  /\ isEditingPage
  /\ Nav(currentPage, pageInput, FALSE, bookPage, flipping,
         Ran("handlePageInputBlur", "", NaN, FALSE, FALSE))

\* the text field loses focus
handlePageInputBlur ==
  /\ phase = "mounted"
  /\ isEditingPage
  /\ Nav(currentPage, String(currentPage + 1), FALSE, bookPage, flipping,
         Ran("handlePageInputBlur", "", NaN, FALSE, FALSE))

\* ---------------------------------------------------------------- export
\* pagesToDownload without the test that the second page exists
pagesToDownloadNoUpper(im, cp, np) ==
  IF im THEN <<cp + 1>>
  ELSE IF cp = 0 THEN <<1>>
  ELSE <<cp + 1, cp + 2>>

\* the pages a call exports: the single page of the mobile branch, the
\* pagesToDownload array of the desktop branch
pagesToDownload(im, cp, np) ==
  IF im THEN <<cp + 1>>
  ELSE IF cp = 0 THEN <<1>>
  ELSE IF cp + 2 <= np THEN <<cp + 1, cp + 2>>
  ELSE <<cp + 1>>

\* an export whose failure is not caught: the rejection escapes
exportNoCatch(x) == [x EXCEPT !.pc = "threw"]

\* the catch block: console.error and the alert
exportCatch(x) ==
  [x EXCEPT !.pc = "failed",
            !.alert = "Unable to download the current page."]

\* the delay test taken after every page
delayNeededAlways(i, len) == TRUE

\* if (i < pagesToDownload.length - 1): a delay follows page i (0-based)
delayNeeded(i, len) == i < len - 1

\* values of the yearbookDownloadPath prop: missing, or a path
DownloadPaths == {"", "/yearbook.pdf"}

\* downloadPdf without the test of yearbookDownloadPath
downloadPdfNoPathTest(path) ==
  /\ pdfLink' = [href |-> path, clicks |-> 1, alert |-> ""]
  /\ last' = Ran("downloadPdf", path, NaN, FALSE, FALSE)
  /\ UNCHANGED <<phase, innerWidth, innerHeight, page, loadState, numPages,
                 currentPage, pageInput, isEditingPage, isMobile, refSet,
                 ready, bookPage, flipping, pollerActive, jumped, listeners,
                 rendered, exports, auth>>

\* downloadPdf in a render whose yearbookDownloadPath prop is `path`: a
\* link to the path is made and clicked once, or the alert is shown
downloadPdf(path) ==
  /\ pdfLink' = IF path # ""
                THEN [href |-> path, clicks |-> 1, alert |-> ""]
                ELSE [href |-> "", clicks |-> 0,
                      alert |-> "Sorry, the PDF download is not available."]
  /\ last' = Ran("downloadPdf", path, NaN, FALSE, FALSE)
  /\ UNCHANGED <<phase, innerWidth, innerHeight, page, loadState, numPages,
                 currentPage, pageInput, isEditingPage, isMobile, refSet,
                 ready, bookPage, flipping, pollerActive, jumped, listeners,
                 rendered, exports, auth>>

\* downloadPdf called on the mounted component
DownloadPdfCall(path) ==
  /\ phase = "mounted"
  /\ downloadPdf(path)

\* a step of call e that leaves it as x; the viewer's state is not written
ExportStep(e, x, op) ==
  /\ exports' = [exports EXCEPT ![e] = x]
  /\ last' = Ran(op, e, NaN, FALSE, x.pc = "threw")
  /\ UNCHANGED <<phase, innerWidth, innerHeight, page, loadState, numPages,
                 currentPage, pageInput, isEditingPage, isMobile, refSet,
                 ready, bookPage, flipping, pollerActive, jumped, listeners,
                 rendered, pdfLink, auth>>

\* downloadCurrentPage without its not-loaded test
downloadCurrentPageNoLoadedTest(e) ==
  /\ exports[e].pc \in {"idle", "done", "failed", "threw"}
  /\ ExportStep(e, [Idle EXCEPT !.im = isMobile, !.cp = currentPage,
                               !.np = numPages, !.pc = "open"],
                "downloadCurrentPage")

\* downloadCurrentPage up to its first await: the not-loaded test, then
\* pdfjs.getDocument(yearbookViewerPath)
downloadCurrentPage(e) ==
  /\ exports[e].pc \in {"idle", "done", "failed", "threw"}
  /\ LET x == [Idle EXCEPT !.im = isMobile, !.cp = currentPage,
                           !.np = numPages]
     IN IF yearbookViewerPath = "" \/ numPages = 0
        THEN ExportStep(e, [x EXCEPT !.pc = "done",
                                     !.alert = "PDF not loaded yet."],
                        "downloadCurrentPage")
        ELSE ExportStep(e, [x EXCEPT !.pc = "open"], "downloadCurrentPage")

\* downloadCurrentPage refused while another call is still in flight
DownloadCurrentPageCallWhenIdle(e) ==
  /\ phase = "mounted"
  /\ \A f \in ExportIds :
       exports[f].pc \notin {"open", "getPage", "render", "delay"}
  /\ downloadCurrentPage(e)

\* downloadCurrentPage called on the mounted component
DownloadCurrentPageCall(e) ==
  /\ phase = "mounted"
  /\ downloadCurrentPage(e)

\* the selection made from the state of the moment the document opens
\* instead of the values of the call
ExportOpenedLive(e, ok) ==
  /\ exports[e].pc = "open"
  /\ LET x == exports[e]
         pages == pagesToDownload(isMobile, currentPage, numPages)
     IN IF ok
        THEN ExportStep(e, [x EXCEPT !.pc = "getPage", !.pages = pages,
                              !.log = Append(@, Event("getPage", pages[1]))],
                        "ExportOpened")
        ELSE ExportStep(e, exportCatch(x), "ExportOpened")

\* loadingTask.promise settles: on success the pages are selected and the
\* first one is requested with pdf.getPage
ExportOpened(e, ok) ==
  /\ exports[e].pc = "open"
  /\ LET x == exports[e]
         pages == pagesToDownload(x.im, x.cp, x.np)
     IN IF ok
        THEN ExportStep(e, [x EXCEPT !.pc = "getPage", !.pages = pages,
                              !.log = Append(@, Event("getPage", pages[1]))],
                        "ExportOpened")
        ELSE ExportStep(e, exportCatch(x), "ExportOpened")

\* pdf.getPage settles (it rejects a page number the document does not
\* have): on success the canvas is made and page.render is called
ExportGotPage(e, ok) ==
  /\ exports[e].pc = "getPage"
  /\ LET x == exports[e]
         p == x.pages[x.i + 1]
     IN IF ok /\ p \in 1..x.np
        THEN ExportStep(e, [x EXCEPT !.pc = "render",
                              !.log = Append(@, Event("render", p))],
                        "ExportGotPage")
        ELSE ExportStep(e, exportCatch(x), "ExportGotPage")

\* page.render settles: on success link.click() triggers the download,
\* then the desktop loop starts its delay or ends
ExportRendered(e, ok) ==
  /\ exports[e].pc = "render"
  /\ LET x == exports[e]
         p == x.pages[x.i + 1]
         clicked == Append(x.log, Event("click", p))
     IN IF ~ok THEN ExportStep(e, exportCatch(x), "ExportRendered")
        ELSE IF ~x.im /\ delayNeeded(x.i, Len(x.pages))
        THEN ExportStep(e, [x EXCEPT !.pc = "delay",
                              !.log = Append(clicked, Event("delay", 0))],
                        "ExportRendered")
        ELSE ExportStep(e, [x EXCEPT !.pc = "done", !.log = clicked],
                        "ExportRendered")

\* the 100 ms timer fires: the loop goes on with the next page, if any
ExportDelayElapsed(e) ==
  /\ exports[e].pc = "delay"
  /\ LET x == exports[e]
     IN IF x.i + 1 < Len(x.pages)
        THEN ExportStep(e, [x EXCEPT !.pc = "getPage", !.i = @ + 1,
                              !.log = Append(@,
                                 Event("getPage", x.pages[x.i + 2]))],
                        "ExportDelayElapsed")
        ELSE ExportStep(e, [x EXCEPT !.pc = "done", !.i = @ + 1],
                        "ExportDelayElapsed")

\* the four arrow keys handleKeyPress binds
ArrowKeys == {"ArrowLeft", "ArrowUp", "ArrowRight", "ArrowDown"}

\* a key pressed in the text field
handlePageInputKeyDown(key) ==
  /\ phase = "mounted"
  /\ isEditingPage
  /\ IF key = "Escape"
     THEN Nav(currentPage, String(currentPage + 1), FALSE, bookPage,
              flipping, Ran("handlePageInputKeyDown", key, NaN, FALSE, FALSE))
     ELSE IF key = "Enter"
     THEN handlePageInputSubmit("handlePageInputKeyDown", key)
     ELSE Noop("handlePageInputKeyDown", key, NaN, FALSE, "")

Next ==
  \/ Mount
  \/ Unmount
  \/ \E w \in Widths, h \in Heights : Resize(w, h)
  \/ \E n \in 1..MaxPages : onDocumentLoadSuccess(n)
  \/ DocumentLoadError
  \/ MechanismReady
  \/ PollJump
  \/ PollWait
  \/ \E key \in Keys : handleKeyPress(key)
  \/ ClickPrevious
  \/ ClickNext
  \/ FlipComplete
  \/ \E pageNum \in GoToPageArgs : GoToPageCall(pageNum)
  \/ SubmitForm
  \/ handlePageDisplayClick
  \/ \E value \in TypedInputs : handlePageInputChange(value)
  \/ handlePageInputBlur
  \/ \E key \in InputKeys : handlePageInputKeyDown(key)

Spec == Init /\ [][Next]_vars

\* the viewer without the page-number field: lifecycle, load, resize, the
\* deep-link interval, arrow keys, goToPage and turn completion
DeepLinkNext ==
  \/ Mount
  \/ Unmount
  \/ \E w \in Widths, h \in Heights : Resize(w, h)
  \/ \E n \in 1..MaxPages : onDocumentLoadSuccess(n)
  \/ DocumentLoadError
  \/ MechanismReady
  \/ PollJump
  \/ PollWait
  \/ \E key \in Keys : handleKeyPress(key)
  \/ FlipComplete
  \/ \E pageNum \in GoToPageArgs : GoToPageCall(pageNum)

\* the interval keeps ticking and the mounted mechanism finishes its
\* initialisation, so a tick eventually finds it ready
DeepLinkSpec ==
  Init /\ [][DeepLinkNext]_vars
       /\ WF_vars(MechanismReady) /\ SF_vars(PollJump)

\* page counts a document of the render-window runs can have
WindowCounts == {2, WindowPages - 1, WindowPages}

\* the viewer on a long document: mount, load, resize, arrow keys, turn
\* completion and goToPage to any of its pages
WindowNext ==
  \/ Mount
  \/ \E w \in Widths, h \in Heights : Resize(w, h)
  \/ \E n \in WindowCounts : onDocumentLoadSuccess(n)
  \/ MechanismReady
  \/ \E key \in ArrowKeys : handleKeyPress(key)
  \/ FlipComplete
  \/ \E n \in 1..WindowPages : GoToPageCall(Num(n))

WindowSpec == Init /\ [][WindowNext]_vars

\* the call id of the runs with one export at a time
OneExport == {"a"}

\* the viewer with its page export: lifecycle, load, resize, goToPage,
\* entering and leaving edit mode, and one call of downloadCurrentPage at
\* a time with its awaits
ExportNext ==
  \/ Mount
  \/ Unmount
  \/ \E w \in Widths, h \in Heights : Resize(w, h)
  \/ \E n \in 1..MaxPages : onDocumentLoadSuccess(n)
  \/ MechanismReady
  \/ \E n \in 1..MaxPages : GoToPageCall(Num(n))
  \/ handlePageDisplayClick
  \/ handlePageInputBlur
  \/ \E e \in OneExport : DownloadCurrentPageCall(e)
  \/ \E e \in OneExport, ok \in BOOLEAN : ExportOpened(e, ok)
  \/ \E e \in OneExport, ok \in BOOLEAN : ExportGotPage(e, ok)
  \/ \E e \in OneExport, ok \in BOOLEAN : ExportRendered(e, ok)
  \/ \E e \in OneExport : ExportDelayElapsed(e)

ExportSpec == Init /\ [][ExportNext]_vars

\* the whole viewer, every handler together with both downloads, started
\* with or without a deep link and driven by a few inputs of each kind
FrameInit ==
  /\ Init
  /\ page \in {Undefined, Str(String(2))}
  /\ innerWidth = 500

FrameNext ==
  \/ Mount
  \/ Unmount
  \/ \E w \in Widths, h \in Heights : Resize(w, h)
  \/ onDocumentLoadSuccess(MaxPages)
  \/ DocumentLoadError
  \/ MechanismReady
  \/ PollJump
  \/ PollWait
  \/ \E key \in {"ArrowLeft", "ArrowRight"} : handleKeyPress(key)
  \/ ClickPrevious
  \/ ClickNext
  \/ FlipComplete
  \/ GoToPageCall(Num(2))
  \/ SubmitForm
  \/ handlePageDisplayClick
  \/ handlePageInputChange(String(2))
  \/ handlePageInputBlur
  \/ \E key \in {"Escape", "Enter"} : handlePageInputKeyDown(key)
  \/ \E path \in DownloadPaths : DownloadPdfCall(path)
  \/ \E e \in OneExport : DownloadCurrentPageCall(e)
  \/ \E e \in OneExport, ok \in BOOLEAN : ExportOpened(e, ok)
  \/ \E e \in OneExport, ok \in BOOLEAN : ExportGotPage(e, ok)
  \/ \E e \in OneExport, ok \in BOOLEAN : ExportRendered(e, ok)
  \/ \E e \in OneExport : ExportDelayElapsed(e)

FrameSpec == FrameInit /\ [][FrameNext]_vars

\* the viewer with overlapping page exports: a loaded document in either
\* layout, goToPage, and two calls of downloadCurrentPage whose awaits
\* interleave freely
OverlapInit ==
  /\ Init
  /\ page = Undefined

OverlapNext ==
  \/ Mount
  \/ \E w \in Widths, h \in Heights : Resize(w, h)
  \/ onDocumentLoadSuccess(MaxPages)
  \/ MechanismReady
  \/ \E n \in 1..MaxPages : GoToPageCall(Num(n))
  \/ \E e \in ExportIds : DownloadCurrentPageCall(e)
  \/ \E e \in ExportIds, ok \in BOOLEAN : ExportOpened(e, ok)
  \/ \E e \in ExportIds, ok \in BOOLEAN : ExportGotPage(e, ok)
  \/ \E e \in ExportIds, ok \in BOOLEAN : ExportRendered(e, ok)
  \/ \E e \in ExportIds : ExportDelayElapsed(e)

OverlapSpec == OverlapInit /\ [][OverlapNext]_vars

\* ------------------------------------------------------ withAuth
\* everything of the viewer, which the authentication wrapper never writes
viewerVars ==
  <<phase, innerWidth, innerHeight, page, loadState, numPages, currentPage,
    pageInput, isEditingPage, isMobile, refSet, ready, bookPage, flipping,
    pollerActive, jumped, listeners, rendered, exports, pdfLink, last>>

\* withAuth(WrappedComponent, {requireAuth}) is rendered for the first
\* time, in a browser whose cookies are `jar`, on the page `pathname`
AuthFirstRender(requireAuth, jar, pathname) ==
  /\ auth.stage = "constructed"
  /\ auth' = [auth EXCEPT !.stage = "mounted",
                          !.requireAuth = requireAuth,
                          !.cookie = jar,
                          !.pathname = pathname,
                          !.shown = AuthView(requireAuth, FALSE, "false")]
  /\ UNCHANGED viewerVars

\* the effect without its call of redirectToCASLogin
AuthEffectNoRedirect ==
  /\ auth.stage = "mounted"
  /\ ~auth.effectRan
  /\ LET r == isAuthenticated(TRUE, auth.cookie)
         checked == ~auth.requireAuth \/ Truthy(r)
         authed == IF auth.requireAuth THEN r ELSE auth.authenticated
     IN auth' = [auth EXCEPT
                   !.effectRan = TRUE,
                   !.result = IF auth.requireAuth THEN r ELSE "none",
                   !.authenticated = authed,
                   !.authChecked = checked,
                   !.shown = AuthView(auth.requireAuth, checked, authed)]
  /\ UNCHANGED viewerVars

\* the mount effect and the render its state updates cause: with
\* requireAuth, isAuthenticated() decides between setAuthChecked(true) and
\* the redirect, after which authChecked stays false
AuthEffect ==
  /\ auth.stage = "mounted"
  /\ ~auth.effectRan
  /\ LET r == isAuthenticated(TRUE, auth.cookie)
         checked == ~auth.requireAuth \/ Truthy(r)
         authed == IF auth.requireAuth THEN r ELSE auth.authenticated
     IN auth' = [auth EXCEPT
                   !.effectRan = TRUE,
                   !.result = IF auth.requireAuth THEN r ELSE "none",
                   !.authenticated = authed,
                   !.authChecked = checked,
                   !.href = IF auth.requireAuth /\ ~Truthy(r)
                            THEN loginUrl(auth.pathname) ELSE @,
                   !.shown = AuthView(auth.requireAuth, checked, authed)]
  /\ UNCHANGED viewerVars

\* the cookies change while the instance is mounted (login or logout in
\* another tab): nothing of the instance listens to that
CookieChange(jar) ==
  /\ auth.stage = "mounted"
  /\ jar # auth.cookie
  /\ auth' = [auth EXCEPT !.cookie = jar]
  /\ UNCHANGED viewerVars

\* the instance is unmounted (the page is left)
AuthUnmount ==
  /\ auth.stage = "mounted"
  /\ auth' = [auth EXCEPT !.stage = "unmounted", !.shown = "nothing"]
  /\ UNCHANGED viewerVars

AuthNext ==
  \/ \E requireAuth \in BOOLEAN, jar \in CookieJars, pathname \in Pathnames :
       AuthFirstRender(requireAuth, jar, pathname)
  \/ AuthEffect
  \/ \E jar \in CookieJars : CookieChange(jar)
  \/ AuthUnmount

\* an instance of the wrapper, with the viewer not yet constructed
AuthInit ==
  /\ Init
  /\ page = Undefined
  /\ innerWidth = 500

AuthSpec == AuthInit /\ [][AuthNext]_vars

\* ------------------------------------------------------------- claims
\* C1: once numPages is known, 0 <= currentPage < numPages in every state
\* reachable by navigation, key presses, manual entry, deep link, resizes
\* and page-turn completions
BoundsInvariant ==
  numPages # 0 => (0 <= currentPage /\ currentPage < numPages)

\* a completed turn has brought the viewer to the last page
BoundsWitness ==
  /\ numPages > 1
  /\ currentPage = numPages - 1
  /\ last.op = "FlipComplete"

\* C2: once numPages is known and the mechanism is at rest, currentPage is
\* the left-most (or only) page the mechanism displays, also after a resize
\* that switches the layout
CurrentPageIsDisplayedPage ==
  (numPages # 0 /\ refSet /\ ready /\ flipping = "none")
    => currentPage = bookPage

\* C3: goToPage(n) with n outside [1, numPages] changes neither
\* currentPage nor pageInput, calls no method of the mechanism and throws
\* nothing
GoToPageInvalidIsNoop ==
  (last.op = "goToPage" /\ ~InPageRange(last.n, numPages))
    => /\ currentPage = last.cp
       /\ pageInput = last.pi
       /\ isEditingPage = last.ed
       /\ flipping = last.fl
       /\ ~last.invoked
       /\ ~last.threw

\* goToPage(numPages + 1) was called on a ready mechanism
GoToPageInvalidWitness ==
  /\ last.op = "goToPage"
  /\ numPages # 0
  /\ last.n = Num(numPages + 1)
  /\ ready

\* C4: while numPages is unknown (load pending or failed), goToPrevious,
\* goToNext and goToPage(n) change no viewer state, call no method of the
\* mechanism and throw nothing
NavigationInertBeforeLoad ==
  (/\ numPages = 0
   /\ \/ last.op = "handleKeyPress" /\ last.key \in ArrowKeys
      \/ last.op = "goToPage")
    => /\ currentPage = last.cp
       /\ pageInput = last.pi
       /\ isEditingPage = last.ed
       /\ flipping = last.fl
       /\ ~last.invoked
       /\ ~last.threw

\* the right arrow was pressed after the document failed to load
NavigationInertWitness ==
  /\ loadState = "failed"
  /\ numPages = 0
  /\ last.op = "handleKeyPress"
  /\ last.key = "ArrowRight"

\* C5: goToPrevious at currentPage = 0 and goToNext at
\* currentPage = numPages - 1, called with no turn in flight, leave
\* currentPage where it is, start no turn and throw nothing
BoundaryNavigationIdempotent ==
  LET prev == \/ last.op = "ClickPrevious"
              \/ last.op = "handleKeyPress"
                 /\ last.key \in {"ArrowLeft", "ArrowUp"}
      next == \/ last.op = "ClickNext"
              \/ last.op = "handleKeyPress"
                 /\ last.key \in {"ArrowRight", "ArrowDown"}
  IN /\ (prev /\ numPages # 0 /\ last.cp = 0 /\ last.fl = "none")
          => (currentPage = 0 /\ flipping = "none" /\ ~last.threw)
     /\ (next /\ numPages # 0 /\ last.cp = numPages - 1 /\ last.fl = "none")
          => (currentPage = numPages - 1 /\ flipping = "none"
              /\ ~last.threw)

\* the deep-link parameter is a page of the loaded document
DeepLinkValid ==
  /\ page.defined
  /\ numPages # 0
  /\ ~parseInt(page.text).nan
  /\ parseInt(page.text).val >= 1
  /\ parseInt(page.text).val <= numPages

\* the poller's tick has just called turnToPage
DeepLinkJumped == last.op = "PollTick" /\ last.invoked

NavigationOps ==
  {"FlipComplete", "ClickPrevious", "ClickNext", "handleKeyPress",
   "goToPage", "handlePageInputSubmit", "handlePageInputKeyDown"}

\* C7: with a page parameter that is absent, not a number, below 1 or
\* above numPages, no interval is started, the poller never calls the
\* mechanism, nothing is thrown, and currentPage moves from its default
\* only through a navigation operation or a page-turn completion
DeepLinkOutOfRangeIgnored ==
  ~DeepLinkValid
    => /\ ~pollerActive
       /\ ~jumped
       /\ last.op # "PollTick"
       /\ (last.op \notin NavigationOps
             => currentPage = last.cp /\ ~last.threw)

\* the mechanism became ready with a page parameter beyond the last page
DeepLinkOutOfRangeWitness ==
  /\ page.defined
  /\ ~parseInt(page.text).nan
  /\ numPages # 0
  /\ parseInt(page.text).val > numPages
  /\ last.op = "MechanismReady"
  /\ currentPage = 0

SubmitRan ==
  \/ last.op = "handlePageInputSubmit"
  \/ last.op = "handlePageInputKeyDown" /\ last.key = "Enter"

\* C8: submitting in edit mode an input that parses to v in
\* [1, numPages] leaves currentPage = v - 1 and edit mode off
ManualEntryValid ==
  (SubmitRan /\ last.ed /\ InPageRange(parseInt(last.pi), numPages))
    => (currentPage = parseInt(last.pi).val - 1 /\ ~isEditingPage)

\* C9: submitting an input that is empty, not a number, below 1 or above
\* numPages leaves currentPage unchanged, calls no method of the
\* mechanism, puts currentPage + 1 in the field and leaves edit mode
ManualEntryInvalid ==
  (SubmitRan /\ last.ed /\ ~InPageRange(parseInt(last.pi), numPages))
    => /\ currentPage = last.cp
       /\ flipping = last.fl
       /\ ~last.invoked
       /\ ~last.threw
       /\ pageInput = String(currentPage + 1)
       /\ ~isEditingPage

\* Enter was pressed on the text "0" while on a later page
ManualEntryInvalidWitness ==
  /\ last.op = "handlePageInputKeyDown"
  /\ last.key = "Enter"
  /\ last.pi = <<"0">>
  /\ currentPage > 0

\* C10: Escape while editing, or blur, puts currentPage + 1 in the field,
\* leaves edit mode, keeps currentPage and calls no method of the mechanism
EscapeOrBlurReverts ==
  (/\ last.ed
   /\ \/ last.op = "handlePageInputBlur"
      \/ last.op = "handlePageInputKeyDown" /\ last.key = "Escape")
    => /\ pageInput = String(currentPage + 1)
       /\ ~isEditingPage
       /\ currentPage = last.cp
       /\ flipping = last.fl
       /\ ~last.invoked
       /\ ~last.threw

\* the field lost focus while it held a text other than the current page
EscapeOrBlurWitness ==
  /\ last.op = "handlePageInputBlur"
  /\ last.pi = <<"2", "x">>
  /\ currentPage + 1 # 2
  /\ pageInput = String(currentPage + 1)

\* a flip event fired: onFlip ran with the index last.n.val
OnFlipRan == last.op = "FlipComplete" /\ ~last.n.nan

\* C11: when a page turn completes and reports index i, currentPage
\* becomes i; the page field becomes the text of i + 1 when the field was
\* not being edited, and keeps its text when it was being edited
FlipCompletionRespectsEditing ==
  OnFlipRan
    => /\ currentPage = last.n.val
       /\ ~last.ed => pageInput = String(last.n.val + 1)
       /\ last.ed => pageInput = last.pi

\* C12: while the component is mounted the layout is single exactly when
\* width / height < 1.2 and spread otherwise, 1.2 itself giving spread
LayoutFollowsAspectRatio ==
  phase = "mounted" => (isMobile <=> 5 * innerWidth < 6 * innerHeight)

\* C12: no operation other than the initial mount and a resize changes
\* the layout
LayoutChangedOnlyByResize ==
  last.op \notin {"Mount", "Resize"} => isMobile = last.im

\* C12: the layout follows the threshold and only mount and resize move it
LayoutThreshold == LayoutFollowsAspectRatio /\ LayoutChangedOnlyByResize

\* a resize to exactly 1.2 switched a single layout to spread
LayoutThresholdWitness ==
  /\ phase = "mounted"
  /\ last.op = "Resize"
  /\ last.im
  /\ 5 * innerWidth = 6 * innerHeight
  /\ ~isMobile

\* C19: the resize listener, the keydown listener and the deep-link timer
\* exist only while the component is mounted; after unmount no handler of
\* the component runs, the mechanism is gone and is never called, and the
\* viewer's state stays what it was when the unmount began, whatever
\* events occur
ListenerLifecycle ==
  /\ (listeners # {} \/ pollerActive) => phase = "mounted"
  /\ phase = "unmounted"
       => /\ last.op = "Unmount"
          /\ ~last.invoked /\ ~last.threw
          /\ ~refSet /\ ~ready /\ flipping = "none"
          /\ isMobile = last.im
          /\ currentPage = last.cp
          /\ pageInput = last.pi
          /\ isEditingPage = last.ed

\* the window was resized across the threshold after the unmount, and the
\* layout did not follow
ListenerLifecycleWitness ==
  /\ phase = "unmounted"
  /\ last.op = "Unmount"
  /\ isMobile # (5 * innerWidth < 6 * innerHeight)

\* C20: the keydown handler calls goToPreviousPage for ArrowLeft and
\* ArrowUp, goToNextPage for ArrowRight and ArrowDown, and neither for any
\* other key, which changes nothing; a previous-key never starts a forward
\* turn and a next-key never starts a backward turn
KeyboardBindings ==
  last.op = "handleKeyPress"
    => /\ last.key \in {"ArrowLeft", "ArrowUp"}
            => last.call = "goToPreviousPage" /\ flipping # "next"
       /\ last.key \in {"ArrowRight", "ArrowDown"}
            => last.call = "goToNextPage" /\ flipping # "prev"
       /\ last.key \notin ArrowKeys
            => /\ last.call = ""
               /\ ~last.invoked /\ ~last.threw
               /\ currentPage = last.cp
               /\ pageInput = last.pi
               /\ isEditingPage = last.ed
               /\ flipping = last.fl

\* ArrowUp started a backward turn
KeyboardBindingsWitness ==
  /\ last.op = "handleKeyPress"
  /\ last.key = "ArrowUp"
  /\ last.call = "goToPreviousPage"
  /\ last.invoked
  /\ flipping = "prev"

\* C16: before numPages is known no page is rendered; once it is known,
\* page index p is rendered exactly when it is within 5 of currentPage,
\* in every state, so after every change of currentPage
RenderWindowMembership ==
  /\ numPages = 0 => rendered = {}
  /\ rendered \subseteq 0..(numPages - 1)
  /\ \A p \in 0..(numPages - 1) :
       p \in rendered <=> (p - currentPage <= 5 /\ currentPage - p <= 5)

\* currentPage just changed to an index with placeholders on both sides
\* of the window
RenderWindowWitness ==
  /\ currentPage # last.cp
  /\ currentPage >= 6
  /\ currentPage + 6 < numPages
  /\ currentPage - 5 \in rendered
  /\ currentPage - 6 \notin rendered
  /\ currentPage + 5 \in rendered
  /\ currentPage + 6 \notin rendered

\* C17: at most 11 pages are rendered, whatever the page count
RenderWindowBounded == Cardinality(rendered) <= 11

\* a document of more than 11 pages with a full window of 11
RenderWindowBoundedWitness ==
  /\ numPages > 11
  /\ Cardinality(rendered) = 11

\* the page numbers a call has recorded with event ev
PagesWith(x, ev) ==
  {x.log[k].p : k \in {j \in 1..Len(x.log) : x.log[j].ev = ev}}

\* the pages the claim selects for a call made at index cp of np pages
SelectedPages(im, cp, np) ==
  IF im THEN {cp + 1}
  ELSE IF cp = 0 THEN {1}
  ELSE {cp + 1} \cup {q \in {cp + 2} : q <= np}

\* C13: a call of downloadCurrentPage with numPages known works on the
\* layout, currentPage and numPages of the moment of the call; it requests
\* only selected pages, all within 1..numPages, and when it completes it
\* has triggered the download of exactly the selected pages: currentPage + 1
\* in single layout; in spread layout page 1 at index 0, otherwise
\* currentPage + 1 and, iff it is at most numPages, currentPage + 2
ExportPageSelection ==
  /\ last.op = "downloadCurrentPage"
       => /\ exports[last.key].cp = currentPage
          /\ exports[last.key].im = isMobile
          /\ exports[last.key].np = numPages
  /\ \A e \in ExportIds :
       LET x == exports[e]
       IN x.np # 0
            => /\ PagesWith(x, "getPage") \subseteq 1..x.np
               /\ PagesWith(x, "getPage")
                    \subseteq SelectedPages(x.im, x.cp, x.np)
               /\ x.pc = "done"
                    => PagesWith(x, "click")
                         = SelectedPages(x.im, x.cp, x.np)

\* a spread export made on the last page, past index 0, completed with
\* that page alone
ExportPageSelectionWitness ==
  \E e \in ExportIds :
    LET x == exports[e]
    IN /\ x.pc = "done"
       /\ ~x.im
       /\ x.cp > 0
       /\ x.cp = x.np - 1
       /\ PagesWith(x, "click") = {x.np}

ExportOps ==
  {"downloadCurrentPage", "ExportOpened", "ExportGotPage", "ExportRendered",
   "ExportDelayElapsed"}

\* C14: a failing step of an export (opening the document, getting a page,
\* rendering it) ends the call in its catch block with an alert shown; no
\* exception escapes, and no step of an export changes currentPage, the
\* layout, the page field or edit mode
ExportFailureContained ==
  /\ \A e \in ExportIds :
       /\ exports[e].pc # "threw"
       /\ exports[e].pc = "failed" => exports[e].alert # ""
  /\ last.op \in ExportOps
       => /\ ~last.threw
          /\ currentPage = last.cp
          /\ isMobile = last.im
          /\ pageInput = last.pi
          /\ isEditingPage = last.ed

\* rendering the second page of a spread failed while the field was being
\* edited: the first page was downloaded, the alert shown
ExportFailureWitness ==
  /\ last.op = "ExportRendered"
  /\ exports[last.key].pc = "failed"
  /\ exports[last.key].alert # ""
  /\ exports[last.key].i = 1
  /\ isEditingPage
  /\ currentPage > 0

\* C15: a spread export of two pages works in ascending order and one page
\* at a time: page currentPage + 1 is requested, rendered and its download
\* triggered, then the delay, then the same for page currentPage + 2, and
\* nothing after the second download
ExportSerialized ==
  \A e \in ExportIds :
    LET x == exports[e]
        Full == <<Event("getPage", x.cp + 1), Event("render", x.cp + 1),
                  Event("click", x.cp + 1), Event("delay", 0),
                  Event("getPage", x.cp + 2), Event("render", x.cp + 2),
                  Event("click", x.cp + 2)>>
    IN (~x.im /\ Len(x.pages) = 2)
         => /\ Len(x.log) <= 7
            /\ \A k \in 1..Len(x.log) : x.log[k] = Full[k]
            /\ x.pc = "done" => x.log = Full

\* a two-page export ran to its end
ExportSerializedWitness ==
  \E e \in ExportIds :
    /\ exports[e].pc = "done"
    /\ ~exports[e].im
    /\ Len(exports[e].pages) = 2
    /\ Len(exports[e].log) = 7

\* the mounted mechanism is initialised and at rest
MechanismAtRest == numPages # 0 /\ refSet /\ ready /\ flipping = "none"

\* C18: in spread layout the mechanism at rest shows page numbers
\* currentPage + 1 and currentPage + 2 as a pair, page 1 alone at index 0,
\* and the last page alone when it has no successor
SpreadPairing ==
  (MechanismAtRest /\ ~isMobile)
    => {q + 1 : q \in SpreadOf(bookPage, numPages, Orientation(isMobile))}
         = IF currentPage = 0 THEN {1}
           ELSE {currentPage + 1}
                  \cup {q \in {currentPage + 2} : q <= numPages}

\* the pairing as far as it holds: whenever currentPage is the page the
\* mechanism reports
SpreadPairingInStep ==
  (MechanismAtRest /\ ~isMobile /\ currentPage = bookPage)
    => {q + 1 : q \in SpreadOf(bookPage, numPages, Orientation(isMobile))}
         = IF currentPage = 0 THEN {1}
           ELSE {currentPage + 1}
                  \cup {q \in {currentPage + 2} : q <= numPages}

\* C21: downloadPdf without a download path clicks no link, shows an
\* alert and throws nothing; with a path it clicks exactly one link to
\* that path and shows no alert; either way currentPage, the layout, the
\* page field, edit mode and the turn in flight stay as they were
DownloadPdfMissingPath ==
  last.op = "downloadPdf"
    => /\ last.key = ""
            => pdfLink.clicks = 0 /\ pdfLink.alert # ""
       /\ last.key # ""
            => /\ pdfLink.clicks = 1
               /\ pdfLink.href = last.key
               /\ pdfLink.alert = ""
       /\ ~last.threw /\ ~last.invoked
       /\ currentPage = last.cp
       /\ isMobile = last.im
       /\ pageInput = last.pi
       /\ isEditingPage = last.ed
       /\ flipping = last.fl

\* downloadPdf ran without a path on a later page while the field was
\* being edited
DownloadPdfMissingPathWitness ==
  /\ last.op = "downloadPdf"
  /\ last.key = ""
  /\ pdfLink.alert # ""
  /\ currentPage > 0
  /\ isEditingPage

\* the operations that may move currentPage: next and previous (buttons
\* and keys), goToPage (direct, or by submitting the page field), the
\* deep-link jump, and the page-turn completion callback
PageChangingOps == NavigationOps \cup {"PollTick"}

\* C22: currentPage changes only in a navigation operation, the deep-link
\* jump or a page-turn completion; a resize, entering or leaving edit
\* mode, typing in the page field, the document load, downloadPdf and
\* every step of downloadCurrentPage leave it unchanged
CurrentPageFrame ==
  /\ last.op \notin PageChangingOps => currentPage = last.cp
  /\ (\/ last.op \in {"Resize", "handlePageDisplayClick",
                      "handlePageInputChange", "handlePageInputBlur",
                      "onDocumentLoadSuccess", "downloadPdf"}
      \/ last.op \in ExportOps
      \/ last.op = "handlePageInputKeyDown" /\ last.key = "Escape")
       => currentPage = last.cp

\* a resize switched the layout on a later page and currentPage stayed
CurrentPageFrameWitness ==
  /\ last.op = "Resize"
  /\ last.im # isMobile
  /\ currentPage > 0
  /\ currentPage = last.cp

\* C23: no handler ends in an unhandled exception, whatever the state:
\* previous, next, goToPage, an arrow key, a manual-entry submit
NoUnhandledException == ~last.threw

\* C24: the deep-link jump happens at most once: a jump is made only by a
\* running poller that has not jumped before, it cancels the poller, and
\* once the jump is made the poller stays cancelled, so no later tick and
\* no later jump follow it
PollingStopsAfterJump ==
  /\ jumped => ~pollerActive
  /\ (last.op = "PollTick" /\ last.invoked)
       => last.pa /\ ~last.ju /\ jumped
  /\ last.ju => last.op # "PollTick" /\ jumped

\* the user navigated after the deep-link jump and the mechanism was then
\* left alone by the poller: currentPage is no longer the page of the link
PollingStopsWitness ==
  /\ jumped
  /\ last.ju
  /\ last.op = "FlipComplete"
  /\ DeepLinkValid
  /\ currentPage # LeftOf(parseInt(page.text).val - 1, Orientation(isMobile))

\* C25: the running poller ends only by its jump or by the unmount; a
\* tick that finds the mechanism not ready changes nothing and leaves the
\* poller running, the jump is made only with the mechanism ready, and
\* while the poller runs and the mechanism is not ready another tick is
\* always possible, however many have passed
PollerHasNoTimeout ==
  /\ pollerActive => phase = "mounted"
  /\ (last.pa /\ ~pollerActive)
       => \/ last.op = "Unmount"
          \/ last.op = "PollTick" /\ last.invoked
  /\ (last.op = "PollTick" /\ last.invoked) => refSet /\ ready
  /\ (last.op = "PollTick" /\ ~last.invoked)
       => /\ pollerActive
          /\ ~jumped
          /\ currentPage = last.cp
          /\ ~(refSet /\ ready)
  /\ (pollerActive /\ ~(refSet /\ ready)) => ENABLED PollWait

\* a tick found the book of a layout switch not ready yet and the poller
\* goes on
PollerHasNoTimeoutWitness ==
  /\ last.op = "PollTick"
  /\ ~last.invoked
  /\ pollerActive
  /\ refSet /\ ~ready
  /\ ~isMobile
  /\ innerWidth = 600

\* the awaits a call of downloadCurrentPage can be suspended at
InFlight == {"open", "getPage", "render", "delay"}

\* the whole trace of a call that exports the pages ps, in order
RECURSIVE TraceOf(_)
TraceOf(ps) ==
  IF ps = <<>> THEN <<>>
  ELSE <<Event("getPage", Head(ps)), Event("render", Head(ps)),
         Event("click", Head(ps))>>
       \o (IF Tail(ps) = <<>> THEN <<>> ELSE <<Event("delay", 0)>>)
       \o TraceOf(Tail(ps))

\* the pages of SelectedPages in ascending order
SelectedInOrder(im, cp, np) ==
  IF im \/ cp = 0 \/ cp + 2 > np THEN <<IF im THEN cp + 1
                                         ELSE IF cp = 0 THEN 1 ELSE cp + 1>>
  ELSE <<cp + 1, cp + 2>>

\* C26: a call of downloadCurrentPage is accepted whatever the other call
\* is doing; each call that was accepted with numPages known goes through
\* its own pages only, its trace being at every moment the beginning of
\* the trace of its selected pages, and on completion it has triggered
\* exactly the downloads of those pages, each once
OverlappingExports ==
  /\ \A e \in ExportIds :
       (phase = "mounted" /\ exports[e].pc \notin InFlight)
         => ENABLED DownloadCurrentPageCall(e)
  /\ \A e \in ExportIds :
       LET x == exports[e]
           full == TraceOf(SelectedInOrder(x.im, x.cp, x.np))
       IN x.np # 0
            => /\ Len(x.log) <= Len(full)
               /\ \A k \in 1..Len(x.log) : x.log[k] = full[k]
               /\ x.pc = "done" => x.log = full

\* two calls in flight at once with their downloads interleaved: one has
\* triggered its first download and waits in its delay, the other has
\* triggered its first download too and is rendering its second page
OverlappingExportsWitness ==
  /\ exports["a"].pc = "delay"
  /\ exports["b"].pc = "render"
  /\ exports["b"].i = 1

\* C27: the pages of an export are those selected by the layout,
\* currentPage and numPages of the moment of the call: whatever
\* navigation, turn or resize happens while it is in flight, the pages it
\* goes through and the downloads it triggers are the ones of those
\* values, not of the current ones
ExportPagesFixedAtCall ==
  \A e \in ExportIds :
    LET x == exports[e]
    IN (x.np # 0 /\ x.pc # "open")
         => /\ x.pages \in {<<>>, SelectedInOrder(x.im, x.cp, x.np)}
            /\ x.pc \in {"getPage", "render", "delay"}
                 => x.pages = SelectedInOrder(x.im, x.cp, x.np)
            /\ PagesWith(x, "click") \subseteq SelectedPages(x.im, x.cp, x.np)
            /\ (x.pc = "done" /\ x.alert = "")
                 => PagesWith(x, "click") = SelectedPages(x.im, x.cp, x.np)

\* the document opened after the user had moved to another page and the
\* layout had switched: the call selected the pages of its own moment
ExportPagesFixedWitness ==
  /\ last.op = "ExportOpened"
  /\ exports[last.key].pc = "getPage"
  /\ last.cp # exports[last.key].cp
  /\ last.im # exports[last.key].im
  /\ SelectedInOrder(last.im, last.cp, numPages)
       # SelectedInOrder(exports[last.key].im, exports[last.key].cp,
                         exports[last.key].np)

\* C28: downloadCurrentPage called while numPages is unknown shows its
\* alert and returns: the document is not opened, no page is requested or
\* rendered, no download is triggered, nothing is thrown and currentPage,
\* the layout, the page field and edit mode stay as they were
ExportBeforeLoad ==
  /\ \A e \in ExportIds :
       LET x == exports[e]
       IN (x.pc # "idle" /\ x.np = 0)
            => /\ x.pc = "done"
               /\ x.alert # ""
               /\ x.log = <<>>
               /\ x.pages = <<>>
  /\ (last.op = "downloadCurrentPage" /\ numPages = 0)
       => /\ exports[last.key].np = 0
          /\ exports[last.key].pc = "done"
          /\ ~last.threw /\ ~last.invoked
          /\ currentPage = last.cp
          /\ isMobile = last.im
          /\ pageInput = last.pi
          /\ isEditingPage = last.ed

\* the call was made on the mounted viewer before the document loaded
ExportBeforeLoadWitness ==
  /\ last.op = "downloadCurrentPage"
  /\ phase = "mounted"
  /\ loadState = "loading"
  /\ numPages = 0
  /\ exports[last.key].alert # ""

\* C29: once numPages is known, every page the mechanism shows at rest,
\* the single page or both pages of the spread, is a rendered page and
\* not a placeholder
DisplayedPagesRendered ==
  MechanismAtRest
    => SpreadOf(bookPage, numPages, Orientation(isMobile)) \subseteq rendered

\* the same, whenever currentPage is the page the mechanism reports
DisplayedPagesRenderedInStep ==
  (MechanismAtRest /\ currentPage = bookPage)
    => SpreadOf(bookPage, numPages, Orientation(isMobile)) \subseteq rendered

====
